---- MODULE Spec2Model ----
(***************************************************************************)
(* Charging-control engine of poll.py: the time-of-day policy              *)
(* (TimeBasedController), the per-charger controller (ChargerController)   *)
(* and the control loop of main().                                         *)
(*                                                                         *)
(* Modelling choices:                                                      *)
(*  - times of day are minutes since local midnight; the wall clock moves  *)
(*    over the instants of TimePoints, which hold every boundary the code  *)
(*    compares against and one instant inside every interval;              *)
(*  - the host's local zone is the policy's time zone, so the naive        *)
(*    datetime.now() of _check_time_conditions shows the policy's hour;    *)
(*  - verbose is off (the default), so the debug prints make no calls;     *)
(*  - one call of control reads the clock at two instants: n1 for the      *)
(*    reads inside get_time_based_current and n2 >= n1 for the later reads *)
(*    of control and _apply_charger_changes.                               *)
(***************************************************************************)
EXTENDS Integers, Sequences, FiniteSets, TLC

VARIABLES
    cfg,              \* the configuration main() resolved (file + CLI)
    now,              \* wall clock in the policy's zone: [day, tod]
    daily_disabled,   \* TimeBasedController.daily_disabled
    last_reset_date,  \* TimeBasedController.last_reset_date
    ctl,              \* charger name -> ChargerController's mutable state
    pc,               \* position of main()'s loop: "sleep", "fetch", "control";
                      \* "crashed" once an exception has left main();
                      \* "call" / "returned" around a method called on its own
    idx,              \* index of the next controller in the for loop
    inverter_data,    \* this cycle's decoded inverter reading
    charger_data,     \* this cycle's charger_data dict
    last,             \* observation of the last update/control call
    cyc,              \* observation of the running cycle
    last_valid_readings,  \* PowerValidator.last_valid_readings
    main_attrs,       \* the attributes main() keeps on itself:
                      \* battery_power_history, max_power_samples
    arg,              \* arguments of a method called on its own
    res,              \* what that call returned
    excess_switch     \* charger name -> what the Use Excess Solar switch
                      \* callback has left: enabled (the attribute it sets on
                      \* its user data), enabled_ha (the published state)

vars == <<cfg, now, daily_disabled, last_reset_date, ctl, pc, idx,
          inverter_data, charger_data, last, cyc, last_valid_readings,
          main_attrs, arg, res, excess_switch>>

\* The control loop sees readings after validation (InverterSamples), its
\* averaging feeds the sensors only, and it calls no method on its own.
aside == <<last_valid_readings, main_attrs, arg, res>>

\* What the control loop holds, left alone by a method called on its own.
loop ==
    <<cfg, now, daily_disabled, last_reset_date, ctl, idx, inverter_data,
      charger_data, last, cyc, excess_switch>>

-----------------------------------------------------------------------------
(* Bounds and input sets *)

\* Days the clock runs over: 0..MaxDay.
MaxDay == 1

\* Averaging windows in minutes: 1..MaxWindow.
MaxWindow == 2

\* Samples fed to the averaging buffer in one run.
MaxArrivals == 4

\* Cycle lengths in seconds, some dividing window * 60 and some not.
SleepIntervals == {20, 25, 30, 45, 60, 90, 120, 240}

\* Battery power samples, in watts (the code holds them divided by 1000).
BatteryPowerSamples == {-1500, 0, 2500}

\* Power budgets handed to a computation called on its own, in watts:
\* 60 * (-BudgetsBelow .. BudgetsAbove), which holds quotients by the voltage
\* that are whole, halves and quarters below, within and above the limits.
BudgetsBelow == 25

BudgetsAbove == 140

Budgets == {60 * i : i \in -BudgetsBelow .. BudgetsAbove}

\* States of charge handed to calculate_battery_reserve: 0..MaxSoc.
MaxSoc == 100

\* States of charge handed to the time policy called on its own.
Socs == {85, 86}

\* Instants of the day the clock visits (minutes since midnight).
TimePoints == {0, 10, 660, 720, 960, 1080, 1260, 1320}

\* The chargers found in the account, in the order of the controllers dict.
ChargerOrder == <<"A", "B">>

Chargers == {ChargerOrder[i] : i \in 1..Len(ChargerOrder)}

None == "none"

\* voltage=240 passed to every ChargerController
Voltage == 240

\* Defaults of main(): get_config_value(...) fallbacks.
CfgDefault ==
    [switch_on_time |-> 660, switch_off_time |-> 1080,
     fixed_charge_start |-> 10, fixed_charge_end |-> 360,
     fixed_charge_current |-> 40, min_excess_threshold |-> 1440,
     battery_soc_threshold |-> 85, max_current |-> 30, min_current |-> 6,
     bus_maximum |-> 7000, buffer |-> 100, primary_charger |-> "A"]

\* A configuration set on the command line: unrestricted window in the
\* evening (19:00-22:00) at 16 A, the second charger as primary.
CfgEvening ==
    [CfgDefault EXCEPT !.fixed_charge_start = 1140, !.fixed_charge_end = 1320,
                       !.fixed_charge_current = 16, !.primary_charger = "B"]

\* The configured primary charger is not in the account: main() warns and
\* passes is_primary=False to every controller.
CfgNoPrimary == [CfgDefault EXCEPT !.primary_charger = None]

Configs == {CfgDefault, CfgEvening, CfgNoPrimary}

\* Decoded inverter readings a cycle may see (the keys control reads).
InverterSamples ==
    { [solar |-> 8000, home |-> 1200, soc |-> 90, from_battery |-> 0],
      [solar |-> 0,    home |-> 400,  soc |-> 60, from_battery |-> 500],
      [solar |-> 1000, home |-> 500,  soc |-> 90, from_battery |-> 0] }

\* JSON bodies the inverter may answer with (HTTP 200): whether the body has
\* a Data array, its length, and whether its elements are numbers.
InverterResponses ==
    { [has_data |-> FALSE, len |-> 0,   numeric |-> TRUE],
      [has_data |-> TRUE,  len |-> 50,  numeric |-> TRUE],
      [has_data |-> TRUE,  len |-> 300, numeric |-> FALSE],
      [has_data |-> TRUE,  len |-> 300, numeric |-> TRUE] }

\* decode_solax_data reads data_array[4] .. data_array[93]
DataArrayLen == 94

\* Charger readings get_emporia_chargers may return for one charger.
ChargerSamples ==
    { [power |-> 0,    current |-> 6,  on |-> FALSE, message |-> "Connected to EV"],
      [power |-> 5760, current |-> 24, on |-> TRUE,  message |-> "Charging"],
      [power |-> 0,    current |-> 6,  on |-> FALSE, message |-> "Unplugged"] }

-----------------------------------------------------------------------------
(* Arithmetic as Python computes it *)

\* int(a / b) for b > 0: truncation toward zero
IntTrunc(a, b) == IF a >= 0 THEN a \div b ELSE -((-a) \div b)

\* round(a / b) for b > 0: nearest integer, ties to the even one
RoundHalfEven(a, b) ==
    LET q == a \div b
        r == a % b
    IN  IF 2 * r < b THEN q
        ELSE IF 2 * r > b THEN q + 1
        ELSE IF q % 2 = 0 THEN q ELSE q + 1

Min2(a, b) == IF a <= b THEN a ELSE b

\* abs(x)
Abs(x) == IF x >= 0 THEN x ELSE -x

Max2(a, b) == IF a >= b THEN a ELSE b

RECURSIVE SumSeq(_)
\* sum(list)
SumSeq(q) == IF q = <<>> THEN 0 ELSE Head(q) + SumSeq(Tail(q))

RECURSIVE SumOver(_, _)
SumOver(f, S) ==
    IF S = {} THEN 0
    ELSE LET x == CHOOSE y \in S : TRUE
         IN  f[x] + SumOver(f, S \ {x})

-----------------------------------------------------------------------------
(* The word conversions of the decoder.  A composed 32-bit value is kept   *)
(* as its two base-65536 digits [hi, lo], the integer 65536 * hi + lo with *)
(* 0 <= lo < 65536, so that values beyond 2^31 are computed exactly.       *)

\* 65536, the weight of the high word
TwoTo16 == 65536

\* 32767, the largest signed 16-bit value
MaxInt16 == 32767

\* (65536 * high) + low
Wide(high, low) == [hi |-> high + (low \div TwoTo16), lo |-> low % TwoTo16]

signed_16_bit(value) == IF value > MaxInt16 THEN value - TwoTo16 ELSE value

unsigned_32_bit(low_word, high_word) == Wide(high_word, low_word)

\* Variant: the high word's sign bit is ignored.
signed_32_bit_unsigned(low_word, high_word) == Wide(high_word, low_word)

\* 4294967296 = 65536 * 65536 is taken off the high digit
signed_32_bit(low_word, high_word) ==
    IF high_word < MaxInt16 + 1
    THEN Wide(high_word, low_word)
    ELSE [Wide(high_word, low_word) EXCEPT !.hi = @ - TwoTo16]

-----------------------------------------------------------------------------
(* The clock *)

Later(t) == {u \in TimePoints : u > t}

\* The next instant the clock shows after n.
NextInstant(n) ==
    IF Later(n.tod) # {}
    THEN [day |-> n.day, tod |-> CHOOSE u \in Later(n.tod) : \A w \in Later(n.tod) : u <= w]
    ELSE [day |-> n.day + 1, tod |-> CHOOSE u \in TimePoints : \A w \in TimePoints : u <= w]

\* The instants a later clock read in the same call may show.
LaterReads(n) ==
    {n} \cup (IF NextInstant(n).day <= MaxDay THEN {NextInstant(n)} ELSE {})

-----------------------------------------------------------------------------
(* TimeBasedController.  tc is [daily_disabled, last_reset_date]; every     *)
(* method returns the policy state it leaves with its result.               *)

\* Variant: the new date is stored, the latch is left as it was.
reset_keeps_latch(tc, n) ==
    IF n.day # tc.last_reset_date
    THEN [tc EXCEPT !.last_reset_date = n.day]
    ELSE tc

reset_daily_state_if_needed(tc, n) ==
    IF n.day # tc.last_reset_date
    THEN [daily_disabled |-> FALSE, last_reset_date |-> n.day]
    ELSE tc

\* Variant: the window opens only after fixed_charge_start.
is_unrestricted_window_open_late(c, n) ==
    c.fixed_charge_start < n.tod /\ n.tod < c.fixed_charge_end

is_unrestricted_window(c, n) ==
    c.fixed_charge_start <= n.tod /\ n.tod < c.fixed_charge_end

is_unrestricted_period(c, tc, n) ==
    [tc |-> reset_daily_state_if_needed(tc, n),
     ret |-> is_unrestricted_window(c, n)]

should_enable_based_on_time(c, tc, n, excess_power, battery_soc) ==
    LET t == reset_daily_state_if_needed(tc, n)
    IN  [tc |-> t,
         ret |-> IF t.daily_disabled THEN FALSE
                 ELSE IF c.switch_on_time <= n.tod /\ n.tod < c.switch_off_time
                      THEN excess_power > c.min_excess_threshold
                           /\ battery_soc > c.battery_soc_threshold
                      ELSE FALSE]

\* Variant: negative excess latches the day off at any time of day.
should_disable_based_on_time_any_hour(c, tc, n, excess_power) ==
    LET t == reset_daily_state_if_needed(tc, n)
    IN  IF excess_power < 0
        THEN [tc |-> [t EXCEPT !.daily_disabled = TRUE], ret |-> TRUE]
        ELSE [tc |-> t, ret |-> FALSE]

should_disable_based_on_time(c, tc, n, excess_power) ==
    LET t == reset_daily_state_if_needed(tc, n)
    IN  IF n.tod >= c.switch_off_time /\ excess_power < 0
        THEN [tc |-> [t EXCEPT !.daily_disabled = TRUE], ret |-> TRUE]
        ELSE [tc |-> t, ret |-> FALSE]

\* Variant: the quotient is rounded to the nearest integer.
daytime_current_rounded(c, excess_power, voltage) ==
    Max2(Min2(RoundHalfEven(excess_power, voltage), c.max_current), c.min_current)

daytime_current(c, excess_power, voltage) ==
    Max2(Min2(IntTrunc(excess_power, voltage), c.max_current), c.min_current)

\* Variant: the evening switch-off returns the enable flag set.
get_time_based_current_off_enabled(c, tc, n, excess_power, battery_soc, voltage) ==
    LET u == is_unrestricted_period(c, tc, n)
        d == should_disable_based_on_time(c, u.tc, n, excess_power)
        e == should_enable_based_on_time(c, d.tc, n, excess_power, battery_soc)
    IN  IF u.ret
        THEN [tc |-> u.tc, current |-> c.fixed_charge_current, enabled |-> TRUE,
              regime |-> "unrestricted"]
        ELSE IF d.ret
        THEN [tc |-> d.tc, current |-> c.min_current, enabled |-> TRUE,
              regime |-> "evening_off"]
        ELSE IF e.ret
        THEN [tc |-> e.tc, current |-> daytime_current(c, excess_power, voltage),
              enabled |-> TRUE, regime |-> "daytime"]
        ELSE [tc |-> e.tc, current |-> c.min_current, enabled |-> FALSE,
              regime |-> "default_off"]

get_time_based_current(c, tc, n, excess_power, battery_soc, voltage) ==
    LET u == is_unrestricted_period(c, tc, n)
        d == should_disable_based_on_time(c, u.tc, n, excess_power)
        e == should_enable_based_on_time(c, d.tc, n, excess_power, battery_soc)
    IN  IF u.ret
        THEN [tc |-> u.tc, current |-> c.fixed_charge_current, enabled |-> TRUE,
              regime |-> "unrestricted"]
        ELSE IF d.ret
        THEN [tc |-> d.tc, current |-> c.min_current, enabled |-> FALSE,
              regime |-> "evening_off"]
        ELSE IF e.ret
        THEN [tc |-> e.tc, current |-> daytime_current(c, excess_power, voltage),
              enabled |-> TRUE, regime |-> "daytime"]
        ELSE [tc |-> e.tc, current |-> c.min_current, enabled |-> FALSE,
              regime |-> "default_off"]

-----------------------------------------------------------------------------
(* PowerCalculator *)

\* excess of calculate_base_power_metrics (also control's excess_power)
calculate_excess(inv, buffer) == inv.solar - inv.home - buffer

\* Variant: the reserve is dropped only at 100 %.
calculate_battery_reserve_full_only(soc_battery) ==
    IF soc_battery < 75 THEN 1700
    ELSE IF soc_battery < 85 THEN 1200
    ELSE IF soc_battery < 95 THEN 700
    ELSE IF soc_battery < 100 THEN 500
    ELSE 0

calculate_battery_reserve(soc_battery) ==
    IF soc_battery < 75 THEN 1700
    ELSE IF soc_battery < 85 THEN 1200
    ELSE IF soc_battery < 95 THEN 700
    ELSE IF soc_battery < 99 THEN 500
    ELSE 0

calculate_available_power(excess, house_load, total_charger_load, bus_maximum, reserve_for_battery) ==
    LET available_excess == excess + total_charger_load - reserve_for_battery
        available_via_bus == bus_maximum - (house_load - total_charger_load)
    IN  Min2(available_excess, available_via_bus)

\* main before its first cycle: no battery_power_history attribute
NoAttrs ==
    [has_history |-> FALSE, battery_power_history |-> <<>>, max_power_samples |-> 0]

\* int(power_avg_window * 60 / sleep_interval)
max_power_samples_of(power_avg_window, sleep_interval) ==
    IntTrunc(power_avg_window * 60, sleep_interval)

\* Variant: the newest sample is dropped when the list is over its size.
update_power_average_drop_newest(current_power, power_history, max_samples) ==
    LET appended == Append(power_history, current_power)
        kept == IF Len(appended) > max_samples
                THEN SubSeq(appended, 1, Len(appended) - 1) ELSE appended
    IN  [power_history |-> kept,
         ret |-> IF kept # <<>> THEN [sum |-> SumSeq(kept), n |-> Len(kept)]
                 ELSE [sum |-> 0, n |-> 1]]

\* update_power_average: the list it leaves and the mean it returns, the
\* quotient sum / n kept as the pair (0.0 is sum 0 over n 1)
update_power_average(current_power, power_history, max_samples) ==
    LET appended == Append(power_history, current_power)
        kept == IF Len(appended) > max_samples THEN Tail(appended) ELSE appended
    IN  [power_history |-> kept,
         ret |-> IF kept # <<>> THEN [sum |-> SumSeq(kept), n |-> Len(kept)]
                 ELSE [sum |-> 0, n |-> 1]]

-----------------------------------------------------------------------------
(* ChargerController.  st is the controller's mutable state, all is the    *)
(* controllers dict (name -> st), c the configuration.                     *)

ConnectedMessages == {"Connected to EV", "Charging", "Please Wait"}

\* _setup_excess_switch: the switch is published off; the callback has set
\* nothing yet
NoSwitch == [k \in Chargers |-> [enabled |-> "unset", enabled_ha |-> "off"]]

InitController ==
    [charger_load |-> 0, charger_state |-> FALSE, charger_current |-> 0,
     charger_connected |-> FALSE, charging |-> FALSE]

is_primary(c, name) == name = c.primary_charger

\* the local state a reading leaves: update, and _verify_charger_state
local_state_of(rd) ==
    [charger_load |-> rd.power, charger_state |-> rd.on,
     charger_current |-> rd.current,
     charger_connected |-> rd.message \in ConnectedMessages,
     charging |-> rd.power > 100]

update(rd) == local_state_of(rd)

total_load(all) == SumOver([k \in Chargers |-> all[k].charger_load], Chargers)

get_primary_charging_status(c, all) ==
    IF \E k \in Chargers : is_primary(c, k)
    THEN LET p == CHOOSE k \in Chargers : is_primary(c, k)
         IN  all[p].charger_connected /\ all[p].charging
    ELSE FALSE

check_time_conditions(c, inv, n) ==
    LET hour == n.tod \div 60
        excess_power == inv.solar - inv.home - c.buffer
    IN  [should_enable |-> 10 <= hour /\ hour < 16 /\ inv.soc > 85 /\ excess_power > 0,
         should_disable |-> hour >= 16 /\ inv.from_battery > 0]

\* Variant: a secondary yields only to a primary that is drawing power.
should_be_active_yield_to_charging(c, name, all, should_enable, should_disable) ==
    IF should_disable THEN FALSE
    ELSE IF ~should_enable THEN TRUE
    ELSE IF is_primary(c, name) THEN TRUE
    ELSE ~(\E k \in Chargers : is_primary(c, k) /\ all[k].charger_connected
                                                /\ all[k].charging)

should_be_active(c, name, all, should_enable, should_disable) ==
    IF should_disable THEN FALSE
    ELSE IF ~should_enable THEN TRUE
    ELSE IF is_primary(c, name) THEN TRUE
    ELSE ~(\E k \in Chargers : is_primary(c, k) /\ all[k].charger_connected)

\* Variant: the quotient is floored.
calculate_primary_current_floor(c, available_for_charge) ==
    LET proposed_current == available_for_charge \div Voltage
    IN  IF proposed_current > c.max_current
        THEN [current |-> c.max_current, state |-> TRUE]
        ELSE IF proposed_current < c.min_current
        THEN [current |-> c.min_current, state |-> FALSE]
        ELSE [current |-> proposed_current, state |-> TRUE]

\* Variant: the pause keeps the computed current.
calculate_primary_current_pause_raw(c, available_for_charge) ==
    LET proposed_current == RoundHalfEven(available_for_charge, Voltage)
    IN  IF proposed_current > c.max_current
        THEN [current |-> c.max_current, state |-> TRUE]
        ELSE IF proposed_current < c.min_current
        THEN [current |-> proposed_current, state |-> FALSE]
        ELSE [current |-> proposed_current, state |-> TRUE]

calculate_primary_current(c, available_for_charge) ==
    LET proposed_current == RoundHalfEven(available_for_charge, Voltage)
    IN  IF proposed_current > c.max_current
        THEN [current |-> c.max_current, state |-> TRUE]
        ELSE IF proposed_current < c.min_current
        THEN [current |-> c.min_current, state |-> FALSE]
        ELSE [current |-> proposed_current, state |-> TRUE]

\* Variant: nothing is set aside for the other secondaries.
calculate_secondary_current_no_reservation(c, name, available_for_charge, primary_is_charging) ==
    IF primary_is_charging
    THEN [current |-> c.min_current, state |-> TRUE]
    ELSE LET proposed_current == RoundHalfEven(available_for_charge, Voltage)
         IN  IF proposed_current > c.max_current
             THEN [current |-> c.max_current, state |-> TRUE]
             ELSE IF proposed_current < c.min_current
             THEN [current |-> c.min_current, state |-> TRUE]
             ELSE [current |-> proposed_current, state |-> TRUE]

calculate_secondary_current(c, name, available_for_charge, primary_is_charging) ==
    IF primary_is_charging
    THEN [current |-> c.min_current, state |-> TRUE]
    ELSE LET others == {k \in Chargers : ~is_primary(c, k) /\ k # name}
             secondary_minimum_power == Cardinality(others) * c.min_current * Voltage
             proposed_current ==
                 RoundHalfEven(available_for_charge - secondary_minimum_power, Voltage)
         IN  IF proposed_current > c.max_current
             THEN [current |-> c.max_current, state |-> TRUE]
             ELSE IF proposed_current < c.min_current
             THEN [current |-> c.min_current, state |-> TRUE]
             ELSE [current |-> proposed_current, state |-> TRUE]

calculate_by_role(c, name, available_for_charge, primary_is_charging) ==
    IF is_primary(c, name)
    THEN calculate_primary_current(c, available_for_charge)
    ELSE calculate_secondary_current(c, name, available_for_charge, primary_is_charging)

calculate_proposed_current(c, name, available_for_charge, primary_is_charging, active, should_enable, should_disable) ==
    IF should_disable THEN [current |-> c.min_current, state |-> FALSE]
    ELSE IF ~should_enable
    THEN calculate_by_role(c, name, available_for_charge, primary_is_charging)
    ELSE IF ~active THEN [current |-> c.min_current, state |-> FALSE]
    ELSE calculate_by_role(c, name, available_for_charge, primary_is_charging)

\* Variant: only the current is compared.
needs_update_current_only(st, current_charger_on, proposed_current, proposed_state) ==
    st.charger_current # proposed_current

\* Variant: no connection gate.
not_connected_never(st) == FALSE

\* "Only update if charger is connected": the gate of _apply_charger_changes
not_connected(st) == ~st.charger_connected

\* needs_update of _apply_charger_changes
needs_update(st, current_charger_on, proposed_current, proposed_state) ==
    st.charger_current # proposed_current \/ current_charger_on # proposed_state

\* What the charger client does to a command: update_charger raises, the
\* re-read fails, or the re-read returns a reading of this charger.
Outcomes ==
    {[kind |-> "set_error", read |-> None], [kind |-> "verify_error", read |-> None]}
    \cup {[kind |-> "verified", read |-> r] : r \in ChargerSamples}

\* Variant: a raised update_charger is reported as success.
set_charger_state_swallows_error(o) == TRUE

\* _set_charger_state: True iff update_charger did not raise
set_charger_state(o) == o.kind # "set_error"

\* Variant: on a mismatch the expected pair is committed to local state.
verify_charger_state_commits_expected(st, o, expected_on, expected_current) ==
    IF o.kind = "verified"
    THEN IF o.read.on = expected_on /\ o.read.current = expected_current
         THEN local_state_of(o.read)
         ELSE [local_state_of(o.read) EXCEPT !.charger_state = expected_on,
                                             !.charger_current = expected_current]
    ELSE st

\* _verify_charger_state: the local state it leaves.  A re-read that returns
\* this charger overwrites the five fields, matching or not; a failed re-read
\* leaves them.
verify_charger_state(st, o, expected_on, expected_current) ==
    IF o.kind = "verified" THEN local_state_of(o.read) ELSE st

\* _apply_charger_changes with _set_charger_state and _verify_charger_state.
\* rd is charger_data[name]; o is what the client does to the command.
\* current_ha is the value last published on the Current sensor: the one
\* update published (charger_current at entry) unless the command was
\* accepted, then proposed_current.
apply_charger_changes(c, st, rd, tc, n, proposed_current, proposed_state, o) ==
    LET quiet == [st |-> st, rd |-> rd, tc |-> tc, submitted |-> FALSE,
                  reread |-> FALSE, outcome |-> None, action |-> None,
                  current_ha |-> st.charger_current]
        old_state == st.charger_current > c.min_current
        new_state == proposed_current > c.min_current
        tc1 == IF old_state # new_state THEN is_unrestricted_period(c, tc, n).tc ELSE tc
        st1 == verify_charger_state(st, o, proposed_state, proposed_current)
        action == [action_type |-> IF old_state # new_state THEN "state_change"
                                   ELSE "current_change",
                   old_current |-> st1.charger_current,
                   new_current |-> proposed_current,
                   old_state |-> old_state, new_state |-> new_state]
    IN  IF not_connected(st) THEN quiet
        ELSE IF ~needs_update(st, rd.on, proposed_current, proposed_state) THEN quiet
        ELSE IF ~set_charger_state(o)
        THEN [st |-> st, rd |-> rd, tc |-> tc1, submitted |-> TRUE,
              reread |-> FALSE, outcome |-> o.kind, action |-> None,
              current_ha |-> st.charger_current]
        ELSE [st |-> st1,
              rd |-> IF o.kind = "verified" THEN o.read ELSE rd,
              tc |-> tc1, submitted |-> TRUE,
              reread |-> TRUE, outcome |-> o.kind, action |-> action,
              current_ha |-> proposed_current]

\* The proposal of control: the time-policy short-circuit, else the
\* power-based logic.  all holds this controller's state after its update.
propose(c, name, all, tc, inv, n1, n2) ==
    LET excess_power == calculate_excess(inv, c.buffer)
        tb == get_time_based_current(c, tc, n1, excess_power, inv.soc, Voltage)
        unr == is_unrestricted_period(c, tb.tc, n2)
        total_charger_load == total_load(all)
        reserve_for_battery == calculate_battery_reserve(inv.soc)
        available_for_charge ==
            calculate_available_power(excess_power, inv.home, total_charger_load,
                                      c.bus_maximum, reserve_for_battery)
        tcnd == check_time_conditions(c, inv, n2)
        primary_is_charging == get_primary_charging_status(c, all)
        active == should_be_active(c, name, all, tcnd.should_enable, tcnd.should_disable)
        pw == calculate_proposed_current(c, name, available_for_charge, primary_is_charging,
                                         active, tcnd.should_enable, tcnd.should_disable)
    IN  IF unr.ret \/ tb.enabled
        THEN [branch |-> "time", tc |-> unr.tc, regime |-> tb.regime,
              tb_current |-> tb.current, tb_enabled |-> tb.enabled,
              unrestricted2 |-> unr.ret,
              current |-> tb.current, state |-> tb.enabled,
              total_charger_load |-> None, available_for_charge |-> None,
              should_enable |-> FALSE, should_disable |-> FALSE, active |-> FALSE]
        ELSE [branch |-> "energy", tc |-> unr.tc, regime |-> tb.regime,
              tb_current |-> tb.current, tb_enabled |-> tb.enabled,
              unrestricted2 |-> unr.ret,
              current |-> pw.current, state |-> pw.state,
              total_charger_load |-> total_charger_load,
              available_for_charge |-> available_for_charge,
              should_enable |-> tcnd.should_enable,
              should_disable |-> tcnd.should_disable, active |-> active]

-----------------------------------------------------------------------------
(* The control loop of main() *)

NoCall == [name |-> None]

\* The lockouts, in seconds, handed to every controller (the defaults of
\* main).
on_to_off_lockout == 60

off_to_on_lockout == 240

\* changes holds, per charger, the on/off change an accepted command of the
\* running cycle made to the on flag read at the start of the cycle (dir is
\* "on", "off" or "none") and the clock reading of that call; previous holds
\* the changes of the cycle before, where a recording specification keeps
\* them.
NoChange == [dir |-> "none", at |-> [day |-> 0, tod |-> 0]]

NoChanges == [k \in Chargers |-> NoChange]

NoCycle ==
    [start_total |-> 0, commanded_power |-> 0,
     submissions |-> [k \in Chargers |-> 0],
     changes |-> NoChanges, previous |-> NoChanges]

Init ==
    /\ cfg \in Configs
    /\ now \in [day : {0}, tod : TimePoints]
    /\ daily_disabled = FALSE
    /\ last_reset_date = now.day
    /\ ctl = [k \in Chargers |-> InitController]
    /\ pc = "sleep"
    /\ idx = 1
    /\ inverter_data = None
    /\ charger_data = None
    /\ last = NoCall
    /\ cyc = NoCycle
    /\ last_valid_readings = [k \in {} |-> 0]
    /\ main_attrs = NoAttrs
    /\ excess_switch = NoSwitch
    /\ arg = None
    /\ res = None

\* time.sleep(sleep_interval): the clock moves on
Sleep == now' \in LaterReads(now)

\* inverter_data['Data'] raises KeyError without a Data array; the indexing
\* and arithmetic of decode_solax_data raise IndexError on a short array and
\* TypeError on a non-numeric element.
decode_raises(r) == ~r.has_data \/ r.len < DataArrayLen \/ ~r.numeric

\* get_inverter_data returned a reading, decoded
ReadInverter ==
    /\ pc = "sleep"
    /\ \E r \in InverterResponses : ~decode_raises(r)
    /\ \E s \in InverterSamples : inverter_data' = s
    /\ pc' = "fetch"
    /\ UNCHANGED <<cfg, now, daily_disabled, last_reset_date, ctl, idx,
                   charger_data, last, cyc>>
    /\ UNCHANGED <<aside, excess_switch>>

\* get_inverter_data returned None: sleep and continue
ReadInverterFail ==
    /\ pc = "sleep"
    /\ Sleep
    /\ UNCHANGED <<cfg, daily_disabled, last_reset_date, ctl, pc, idx,
                   inverter_data, charger_data, last, cyc>>
    /\ UNCHANGED <<aside, excess_switch>>

\* get_inverter_data returned a body main cannot decode: the exception is
\* raised inside the while loop, which has no handler, and ends the process
ReadInverterMalformed ==
    /\ pc = "sleep"
    /\ \E r \in InverterResponses : decode_raises(r)
    /\ pc' = "crashed"
    /\ UNCHANGED <<cfg, now, daily_disabled, last_reset_date, ctl, idx,
                   inverter_data, charger_data, last, cyc>>
    /\ UNCHANGED <<aside, excess_switch>>

\* get_emporia_chargers returned the chargers' readings; previous is what
\* the observation of the cycle recalls of the cycle before
FetchChargersRecalling(previous) ==
    /\ pc = "fetch"
    /\ \E d \in [Chargers -> ChargerSamples] :
         /\ charger_data' = d
         /\ cyc' = [NoCycle EXCEPT
                      !.start_total = SumOver([k \in Chargers |-> d[k].power], Chargers),
                      !.previous = previous]
    /\ pc' = "control"
    /\ idx' = 1
    /\ UNCHANGED <<cfg, now, daily_disabled, last_reset_date, ctl,
                   inverter_data, last>>
    /\ UNCHANGED <<aside, excess_switch>>

FetchChargers == FetchChargersRecalling(NoChanges)

\* Variant: the failed fetch clears the time policy's latch.
FetchChargersFail_clears_latch ==
    /\ pc = "fetch"
    /\ Sleep
    /\ pc' = "sleep"
    /\ inverter_data' = None
    /\ daily_disabled' = FALSE
    /\ UNCHANGED <<cfg, last_reset_date, ctl, idx, charger_data, last, cyc>>
    /\ UNCHANGED <<aside, excess_switch>>

\* get_emporia_chargers returned None: sleep and continue
FetchChargersFail ==
    /\ pc = "fetch"
    /\ Sleep
    /\ pc' = "sleep"
    /\ inverter_data' = None
    /\ UNCHANGED <<cfg, daily_disabled, last_reset_date, ctl, idx,
                   charger_data, last, cyc>>
    /\ UNCHANGED <<aside, excess_switch>>

\* What one call of control leaves to observe.
Observation(c, name, tc, entry, n1, n2, p, a) ==
    [name |-> name, n1 |-> n1,
     new_date |-> n1.day # tc.last_reset_date,
     latched_before |-> tc.daily_disabled,
     entry |-> entry,
     branch |-> p.branch, regime |-> p.regime,
     tb_current |-> p.tb_current, tb_enabled |-> p.tb_enabled,
     unrestricted2 |-> p.unrestricted2,
     current |-> p.current, state |-> p.state,
     total_charger_load |-> p.total_charger_load,
     available_for_charge |-> p.available_for_charge,
     should_enable |-> p.should_enable, should_disable |-> p.should_disable,
     active |-> p.active,
     submitted |-> a.submitted, reread |-> a.reread, outcome |-> a.outcome,
     action |-> a.action, current_ha |-> a.current_ha]

\* One pass of the for loop: controller.update, then controller.control
ControlStep ==
    /\ pc = "control"
    /\ idx <= Len(ChargerOrder)
    /\ LET name == ChargerOrder[idx]
           rd == charger_data[name]
           entry == update(rd)
           all == [ctl EXCEPT ![name] = entry]
           tc == [daily_disabled |-> daily_disabled, last_reset_date |-> last_reset_date]
       IN  \E n2 \in LaterReads(now) :
           \E p \in {propose(cfg, name, all, tc, inverter_data, now, n2)} :
           \E o \in Outcomes :
           \E a \in {apply_charger_changes(cfg, entry, rd, p.tc, n2,
                                           p.current, p.state, o)} :
               /\ now' = n2
               /\ daily_disabled' = a.tc.daily_disabled
               /\ last_reset_date' = a.tc.last_reset_date
               /\ ctl' = [all EXCEPT ![name] = a.st]
               /\ charger_data' = [charger_data EXCEPT ![name] = a.rd]
               /\ last' = Observation(cfg, name, tc, entry, now, n2, p, a)
               /\ cyc' = [cyc EXCEPT
                            !.commanded_power =
                                @ + (IF a.submitted /\ a.outcome # "set_error" /\ p.state
                                     THEN p.current * Voltage ELSE 0),
                            !.submissions[name] = @ + (IF a.submitted THEN 1 ELSE 0),
                            !.changes[name] =
                                IF a.submitted /\ a.outcome # "set_error"
                                   /\ p.state # entry.charger_state
                                THEN [dir |-> IF p.state THEN "on" ELSE "off", at |-> n2]
                                ELSE NoChange]
    /\ idx' = idx + 1
    /\ UNCHANGED <<cfg, pc, inverter_data>>
    /\ UNCHANGED <<aside, excess_switch>>

\* End of the cycle: status, log, time.sleep(sleep_interval); previous is
\* what is kept of the cycle for the next one to recall
EndCycleKeeping(previous) ==
    /\ pc = "control"
    /\ idx > Len(ChargerOrder)
    /\ Sleep
    /\ pc' = "sleep"
    /\ idx' = 1
    /\ inverter_data' = None
    /\ charger_data' = None
    /\ last' = NoCall
    /\ cyc' = [NoCycle EXCEPT !.previous = previous]
    /\ UNCHANGED <<cfg, daily_disabled, last_reset_date, ctl>>
    /\ UNCHANGED <<aside, excess_switch>>

EndCycle == EndCycleKeeping(NoChanges)

Next ==
    \/ ReadInverter
    \/ ReadInverterFail
    \/ ReadInverterMalformed
    \/ FetchChargers
    \/ FetchChargersFail
    \/ ControlStep
    \/ EndCycle

Spec == Init /\ [][Next]_vars

-----------------------------------------------------------------------------
(* The control loop with the on/off changes of each cycle kept for the     *)
(* next one: cycles whose reads succeed, under the default configuration.  *)

\* The state main() enters its loop in, with configuration c at instant n
Constructed(c, n) ==
    /\ cfg = c
    /\ now = n
    /\ daily_disabled = FALSE
    /\ last_reset_date = now.day
    /\ ctl = [k \in Chargers |-> InitController]
    /\ pc = "sleep"
    /\ idx = 1
    /\ inverter_data = None
    /\ charger_data = None
    /\ last = NoCall
    /\ cyc = NoCycle
    /\ last_valid_readings = [k \in {} |-> 0]
    /\ main_attrs = NoAttrs
    /\ excess_switch = NoSwitch
    /\ arg = None
    /\ res = None

\* The state after construction at 00:00, the last day the clock reaches
InitRecorded == Constructed(CfgDefault, [day |-> MaxDay, tod |-> 0])

FetchChargersRecorded == FetchChargersRecalling(cyc.previous)

EndCycleRecorded == EndCycleKeeping(cyc.changes)

NextRecorded ==
    \/ ReadInverter
    \/ FetchChargersRecorded
    \/ ControlStep
    \/ EndCycleRecorded

SpecRecorded == InitRecorded /\ [][NextRecorded]_vars

-----------------------------------------------------------------------------
(* The control loop with messages arriving on the chargers' Use Excess     *)
(* Solar switches, under the default configuration.  The callback runs on  *)
(* the bus client's thread, at any point of a cycle.                       *)

Payloads == {"ON", "OFF", "TOGGLE"}

\* Variant: the callback writes the controller's on flag.
switch_enabled_writes_on_flag(name, payload) ==
    /\ payload \in {"ON", "OFF"}
    /\ excess_switch' = [excess_switch EXCEPT ![name] =
                            [enabled |-> IF payload = "ON" THEN "True" ELSE "False",
                             enabled_ha |-> IF payload = "ON" THEN "on" ELSE "off"]]
    /\ ctl' = [ctl EXCEPT ![name].charger_state = (payload = "ON")]
    /\ UNCHANGED <<cfg, now, daily_disabled, last_reset_date, pc, idx,
                   inverter_data, charger_data, last, cyc, aside>>

\* switch_enabled: ON and OFF set the attribute enabled on the callback's
\* user data and publish the switch state, any other payload does nothing;
\* where the user data takes no attribute the assignment raises on the
\* client's thread and nothing is set or published.
switch_enabled(name, payload) ==
    /\ \/ /\ payload \in {"ON", "OFF"}
          /\ excess_switch' = [excess_switch EXCEPT ![name] =
                                  [enabled |-> IF payload = "ON" THEN "True" ELSE "False",
                                   enabled_ha |-> IF payload = "ON" THEN "on" ELSE "off"]]
       \/ UNCHANGED excess_switch
    /\ UNCHANGED <<cfg, now, daily_disabled, last_reset_date, ctl, pc, idx,
                   inverter_data, charger_data, last, cyc, aside>>

\* The state after construction at 11:00, the last day the clock reaches
InitSwitch == Constructed(CfgDefault, [day |-> MaxDay, tod |-> 660])

SwitchMessage == \E name \in Chargers, payload \in Payloads : switch_enabled(name, payload)

NextSwitch ==
    \/ Next
    \/ SwitchMessage

SpecSwitch == InitSwitch /\ [][NextSwitch]_vars

-----------------------------------------------------------------------------
(* The current computations and the time policy, each called on its own    *)
(* with arguments drawn from the input sets.                               *)

CurrentInputs ==
    [fn : {"primary"}, available_for_charge : Budgets]
    \cup [fn : {"secondary"}, name : Chargers, available_for_charge : Budgets,
          primary_is_charging : BOOLEAN]

ReserveInputs == [fn : {"battery_reserve"}, soc_battery : 0..MaxSoc]

PolicyInputs ==
    [fn : {"time_policy"}, excess_power : Budgets, battery_soc : Socs]

InitCalc ==
    /\ cfg \in Configs
    /\ \/ /\ arg \in CurrentInputs \cup ReserveInputs
          /\ now = [day |-> 0, tod |-> 0]
          /\ daily_disabled = FALSE
       \/ /\ arg \in PolicyInputs
          /\ now \in [day : {0}, tod : TimePoints]
          /\ daily_disabled \in BOOLEAN
    /\ arg.fn = "secondary" => ~is_primary(cfg, arg.name)
    /\ last_reset_date = 0
    /\ ctl = [k \in Chargers |-> InitController]
    /\ pc = "call"
    /\ idx = 1
    /\ inverter_data = None
    /\ charger_data = None
    /\ last = NoCall
    /\ cyc = NoCycle
    /\ last_valid_readings = [k \in {} |-> 0]
    /\ main_attrs = NoAttrs
    /\ excess_switch = NoSwitch
    /\ res = None

\* _calculate_primary_current(available_for_charge)
CalcPrimary ==
    /\ pc = "call"
    /\ arg.fn = "primary"
    /\ res' = calculate_primary_current(cfg, arg.available_for_charge)
    /\ pc' = "returned"
    /\ UNCHANGED <<cfg, now, daily_disabled, last_reset_date, ctl, idx,
                   inverter_data, charger_data, last, cyc, last_valid_readings, arg>>
    /\ UNCHANGED <<main_attrs, excess_switch>>

\* _calculate_secondary_current(available_for_charge, primary_is_charging,
\* all_controllers) of a controller that is not the primary
CalcSecondary ==
    /\ pc = "call"
    /\ arg.fn = "secondary"
    /\ ~is_primary(cfg, arg.name)
    /\ res' = calculate_secondary_current(cfg, arg.name, arg.available_for_charge,
                                          arg.primary_is_charging)
    /\ pc' = "returned"
    /\ UNCHANGED <<cfg, now, daily_disabled, last_reset_date, ctl, idx,
                   inverter_data, charger_data, last, cyc, last_valid_readings, arg>>
    /\ UNCHANGED <<main_attrs, excess_switch>>

\* get_time_based_current(excess_power, battery_soc, voltage)
CalcTimePolicy ==
    /\ pc = "call"
    /\ arg.fn = "time_policy"
    /\ LET tc == [daily_disabled |-> daily_disabled, last_reset_date |-> last_reset_date]
           r == get_time_based_current(cfg, tc, now, arg.excess_power,
                                       arg.battery_soc, Voltage)
       IN  /\ res' = [current |-> r.current, enabled |-> r.enabled,
                      latched_before |-> daily_disabled]
           /\ daily_disabled' = r.tc.daily_disabled
           /\ last_reset_date' = r.tc.last_reset_date
    /\ pc' = "returned"
    /\ UNCHANGED <<cfg, now, ctl, idx, inverter_data, charger_data, last, cyc,
                   last_valid_readings, arg>>
    /\ UNCHANGED <<main_attrs, excess_switch>>

\* calculate_battery_reserve(soc_battery)
CalcReserve ==
    /\ pc = "call"
    /\ arg.fn = "battery_reserve"
    /\ res' = calculate_battery_reserve(arg.soc_battery)
    /\ pc' = "returned"
    /\ UNCHANGED <<loop, last_valid_readings, main_attrs, arg>>

NextCalc ==
    \/ CalcPrimary
    \/ CalcSecondary
    \/ CalcTimePolicy
    \/ CalcReserve

SpecCalc == InitCalc /\ [][NextCalc]_vars

-----------------------------------------------------------------------------
(* PowerValidator, called on its own.  Keys are sequences of characters.   *)

\* max_power_threshold=50000
max_power_threshold == 50000

Key_Power_FromSolar == <<"P", "o", "w", "e", "r", "/", "F", "r", "o", "m", "S", "o", "l", "a", "r">>

Key_String1_Power == <<"S", "t", "r", "i", "n", "g", "1", "/", "P", "o", "w", "e", "r">>

Key_AC_Power == <<"A", "C", "/", "P", "o", "w", "e", "r">>

Key_AC_Voltage == <<"A", "C", "/", "V", "o", "l", "t", "a", "g", "e">>

Key_Battery_SOC == <<"B", "a", "t", "t", "e", "r", "y", "/", "S", "O", "C">>

ReadingKeys ==
    {Key_Power_FromSolar, Key_String1_Power, Key_AC_Power, Key_AC_Voltage,
     Key_Battery_SOC}

\* Readings passed to the validator: spurious ones, the threshold on both
\* sides, and ordinary ones.
ReadingValues == {-123456, -50001, -50000, 0, 6000, 50000, 50001, 123456}

\* key.startswith(prefix)
startswith(key, prefix) ==
    Len(key) >= Len(prefix) /\ SubSeq(key, 1, Len(prefix)) = prefix

\* the keys validate_reading checks: 'Power/', 'String', 'AC/Power'
is_power_key(key) ==
    \/ startswith(key, <<"P", "o", "w", "e", "r", "/">>)
    \/ startswith(key, <<"S", "t", "r", "i", "n", "g">>)
    \/ startswith(key, <<"A", "C", "/", "P", "o", "w", "e", "r">>)

\* Variant: a reading over the threshold is remembered as well.
validate_reading_stores_spurious(lv, key, value) ==
    IF ~is_power_key(key)
    THEN [ret |-> value, last_valid_readings |-> lv]
    ELSE IF Abs(value) > max_power_threshold
    THEN [ret |-> IF key \in DOMAIN lv THEN lv[key] ELSE 0,
          last_valid_readings |->
              [k \in DOMAIN lv \cup {key} |-> IF k = key THEN value ELSE lv[k]]]
    ELSE [ret |-> value,
          last_valid_readings |->
              [k \in DOMAIN lv \cup {key} |-> IF k = key THEN value ELSE lv[k]]]

\* validate_reading: what it returns and the dict it leaves
validate_reading(lv, key, value) ==
    IF ~is_power_key(key)
    THEN [ret |-> value, last_valid_readings |-> lv]
    ELSE IF Abs(value) > max_power_threshold
    THEN [ret |-> IF key \in DOMAIN lv THEN lv[key] ELSE 0,
          last_valid_readings |-> lv]
    ELSE [ret |-> value,
          last_valid_readings |->
              [k \in DOMAIN lv \cup {key} |-> IF k = key THEN value ELSE lv[k]]]

\* PowerValidator(): last_valid_readings = {}
InitValidator ==
    /\ cfg = CfgDefault
    /\ now = [day |-> 0, tod |-> 0]
    /\ daily_disabled = FALSE
    /\ last_reset_date = 0
    /\ ctl = [k \in Chargers |-> InitController]
    /\ pc = "call"
    /\ idx = 1
    /\ inverter_data = None
    /\ charger_data = None
    /\ last = NoCall
    /\ cyc = NoCycle
    /\ last_valid_readings = [k \in {} |-> 0]
    /\ main_attrs = NoAttrs
    /\ excess_switch = NoSwitch
    /\ arg = None
    /\ res = None

\* One call validate_reading(key, value); arg keeps the dict as it was
\* before the call.
ValidateReading ==
    /\ pc \in {"call", "returned"}
    /\ \E key \in ReadingKeys : \E value \in ReadingValues :
       \E r \in {validate_reading(last_valid_readings, key, value)} :
           /\ arg' = [fn |-> "validate_reading", key |-> key, value |-> value,
                      before |-> last_valid_readings]
           /\ res' = r.ret
           /\ last_valid_readings' = r.last_valid_readings
    /\ pc' = "returned"
    /\ UNCHANGED <<cfg, now, daily_disabled, last_reset_date, ctl, idx,
                   inverter_data, charger_data, last, cyc>>
    /\ UNCHANGED <<main_attrs, excess_switch>>

NextValidator == ValidateReading

SpecValidator == InitValidator /\ [][NextValidator]_vars

-----------------------------------------------------------------------------
(* The battery-power averaging of main(), cycle after cycle *)

InitAverage ==
    /\ cfg = CfgDefault
    /\ now = [day |-> 0, tod |-> 0]
    /\ daily_disabled = FALSE
    /\ last_reset_date = 0
    /\ ctl = [k \in Chargers |-> InitController]
    /\ pc = "call"
    /\ idx = 1
    /\ inverter_data = None
    /\ charger_data = None
    /\ last = NoCall
    /\ cyc = NoCycle
    /\ last_valid_readings = [k \in {} |-> 0]
    /\ main_attrs = NoAttrs
    /\ excess_switch = NoSwitch
    /\ arg \in [fn : {"update_power_average"}, power_avg_window : 1..MaxWindow,
                 sleep_interval : SleepIntervals, arrivals : {<<>>}]
    /\ res = None

\* One cycle's averaging: the first one creates the list and its size, every
\* one calls update_power_average; arg.arrivals logs the samples in order.
AverageCycle ==
    /\ pc \in {"call", "returned"}
    /\ Len(arg.arrivals) < MaxArrivals
    /\ \E current_battery_power \in BatteryPowerSamples :
       LET attrs == IF main_attrs.has_history THEN main_attrs
                    ELSE [has_history |-> TRUE, battery_power_history |-> <<>>,
                          max_power_samples |->
                              max_power_samples_of(arg.power_avg_window,
                                                   arg.sleep_interval)]
           r == update_power_average(current_battery_power,
                                     attrs.battery_power_history,
                                     attrs.max_power_samples)
       IN  /\ main_attrs' = [attrs EXCEPT !.battery_power_history = r.power_history]
           /\ res' = r.ret
           /\ arg' = [arg EXCEPT !.arrivals = Append(@, current_battery_power)]
    /\ pc' = "returned"
    /\ UNCHANGED <<loop, last_valid_readings>>

NextAverage == AverageCycle

SpecAverage == InitAverage /\ [][NextAverage]_vars

-----------------------------------------------------------------------------
(* The word conversions applied to the registers of every field-sized      *)
(* value                                                                   *)

\* Low words and high digits the 32-bit conversions are tried on
LowWords == {0, 1, 255, 256, 32767, 32768, 65534, 65535} \cup {4369 * i : i \in 0..15}

SignedHighs == {h - 32768 : h \in LowWords}

DecodeInputs ==
    [fn : {"signed_16_bit"}, v : -(MaxInt16 + 1) .. MaxInt16]
    \cup [fn : {"signed_32_bit"}, v : [hi : SignedHighs, lo : LowWords]]
    \cup [fn : {"unsigned_32_bit"}, v : [hi : LowWords, lo : LowWords]]

InitDecode ==
    /\ cfg = CfgDefault
    /\ now = [day |-> 0, tod |-> 0]
    /\ daily_disabled = FALSE
    /\ last_reset_date = 0
    /\ ctl = [k \in Chargers |-> InitController]
    /\ pc = "call"
    /\ idx = 1
    /\ inverter_data = None
    /\ charger_data = None
    /\ last = NoCall
    /\ cyc = NoCycle
    /\ last_valid_readings = [k \in {} |-> 0]
    /\ main_attrs = NoAttrs
    /\ excess_switch = NoSwitch
    /\ arg \in DecodeInputs
    /\ res = None

\* signed_16_bit of the register that holds v: v mod 65536
DecodeSigned16 ==
    /\ pc = "call"
    /\ arg.fn = "signed_16_bit"
    /\ res' = signed_16_bit(arg.v % TwoTo16)
    /\ pc' = "returned"
    /\ UNCHANGED <<loop, last_valid_readings, main_attrs, arg>>

\* signed_32_bit of the two registers that hold v: the low word, and the
\* high digit mod 65536
DecodeSigned32 ==
    /\ pc = "call"
    /\ arg.fn = "signed_32_bit"
    /\ res' = signed_32_bit(arg.v.lo, arg.v.hi % TwoTo16)
    /\ pc' = "returned"
    /\ UNCHANGED <<loop, last_valid_readings, main_attrs, arg>>

\* unsigned_32_bit of the two registers that hold v
DecodeUnsigned32 ==
    /\ pc = "call"
    /\ arg.fn = "unsigned_32_bit"
    /\ res' = unsigned_32_bit(arg.v.lo, arg.v.hi)
    /\ pc' = "returned"
    /\ UNCHANGED <<loop, last_valid_readings, main_attrs, arg>>

NextDecode ==
    \/ DecodeSigned16
    \/ DecodeSigned32
    \/ DecodeUnsigned32

SpecDecode == InitDecode /\ [][NextDecode]_vars

-----------------------------------------------------------------------------
(* Properties *)

Called == last.name # None

CycleDone == pc = "control" /\ idx > Len(ChargerOrder)

\* excess_power of the running cycle, as control computes it
Excess == calculate_excess(inverter_data, cfg.buffer)

InFixedWindow(t) == cfg.fixed_charge_start <= t /\ t < cfg.fixed_charge_end

PolicyOff == last.tb_current = cfg.min_current /\ ~last.tb_enabled

ProposalDiffers ==
    last.current # last.entry.charger_current \/ last.state # last.entry.charger_state

\* C1: after every decision of control the proposed current lies within
\* min_current..max_current.  The code breaks it in the unrestricted window,
\* where fixed_charge_current (40 by default) is proposed past max_current (30).
C1_CurrentWithinLimits ==
    Called => cfg.min_current <= last.current /\ last.current <= cfg.max_current

\* C2: every proposal of control with enabled = false carries min_current.
C2_DisabledAtMin ==
    (Called /\ ~last.state) => last.current = cfg.min_current

\* C2 witness: a primary paused by the power-based logic
C2_Witness ==
    /\ Called
    /\ last.branch = "energy"
    /\ ~last.should_disable
    /\ ~last.state
    /\ last.name = cfg.primary_charger

\* C3 as stated: once the latch is set, every call on the same date returns
\* (min_current, false).
C3_LatchedAlwaysOff ==
    (Called /\ last.latched_before /\ ~last.new_date) => PolicyOff

\* C3 amended: once the latch is set, every call on the same date that falls
\* outside the unrestricted window returns (min_current, false).
C3_LatchedOffOutsideWindow ==
    (Called /\ last.latched_before /\ ~last.new_date /\ ~InFixedWindow(last.n1.tod))
        => PolicyOff

\* C3 witness: a latched call that sees positive excess
C3_Witness ==
    /\ Called
    /\ last.latched_before
    /\ ~last.new_date
    /\ ~InFixedWindow(last.n1.tod)
    /\ Excess > 0

\* C4: a call inside the unrestricted window returns (fixed_current, true).
C4_UnrestrictedFixed ==
    (Called /\ InFixedWindow(last.n1.tod))
        => (last.tb_current = cfg.fixed_charge_current /\ last.tb_enabled)

\* C4 witness: inside the window with the latch set, negative excess and a
\* secondary charger
C4_Witness ==
    /\ Called
    /\ InFixedWindow(last.n1.tod)
    /\ last.latched_before
    /\ ~last.new_date
    /\ Excess < 0
    /\ last.name # cfg.primary_charger

C6_LatchSuppressesEnable ==
    (Called /\ last.latched_before /\ ~last.new_date /\ daily_disabled
        /\ ~InFixedWindow(last.n1.tod) /\ ~last.unrestricted2) => ~last.state

\* C7: the total charger load a controller's budget uses is the sum of the
\* loads sampled at the start of the cycle.  The code sums the controllers'
\* local loads, of which the later ones are still last cycle's.
C7_TotalIsCycleStartSnapshot ==
    (Called /\ last.branch = "energy") => last.total_charger_load = cyc.start_total

\* C8: the power commanded in one cycle plus the non-charger house load
\* stays within bus_maximum.
C8_BusMaximumRespected ==
    CycleDone =>
        cyc.commanded_power + (inverter_data.home - cyc.start_total) <= cfg.bus_maximum

\* C9: control of a charger that is not connected submits no command,
\* produces no ChargerAction and leaves load, on-flag and current as update
\* set them.
C9_DisconnectedUntouched ==
    (Called /\ ~last.entry.charger_connected) =>
        /\ ~last.submitted
        /\ last.action = None
        /\ ctl[last.name].charger_load = last.entry.charger_load
        /\ ctl[last.name].charger_state = last.entry.charger_state
        /\ ctl[last.name].charger_current = last.entry.charger_current

\* C9 witness: a disconnected charger whose proposal differs from its state
C9_Witness ==
    /\ Called
    /\ ~last.entry.charger_connected
    /\ ProposalDiffers

\* C10: for a connected charger a command is submitted iff the proposed pair
\* differs from the present pair; with equal pairs there is no ChargerAction.
C10_CommandIffDiffers ==
    (Called /\ last.entry.charger_connected) =>
        /\ last.submitted <=> ProposalDiffers
        /\ ~ProposalDiffers => last.action = None

\* C10 witness: same current, other on-flag, command submitted
C10_Witness ==
    /\ Called
    /\ last.entry.charger_connected
    /\ last.current = last.entry.charger_current
    /\ last.state # last.entry.charger_state
    /\ last.submitted

\* C11: after a command submitted without error and a verification re-read
\* that returned this charger, the controller's load, on-flag, current,
\* connected and charging are those of the re-read, matching the command or
\* not; where the re-read differs from the proposal the local value is not
\* the proposed one.
C11_VerifiedStateIsObserved ==
    (Called /\ last.submitted /\ last.outcome = "verified") =>
        LET rd == charger_data[last.name]
            st == ctl[last.name]
        IN  /\ st.charger_load = rd.power
            /\ st.charger_state = rd.on
            /\ st.charger_current = rd.current
            /\ st.charger_connected = (rd.message \in ConnectedMessages)
            /\ st.charging = (rd.power > 100)
            /\ rd.current # last.current => st.charger_current # last.current
            /\ rd.on # last.state => st.charger_state # last.state

\* C11 witness: the re-read shows neither the commanded current nor the
\* commanded on-flag
C11_Witness ==
    /\ Called
    /\ last.submitted
    /\ last.outcome = "verified"
    /\ charger_data[last.name].current # last.current
    /\ charger_data[last.name].on # last.state

\* C12: a transient or protocol error of a cycle never ends the process.
\* The code breaks it: a body without a Data array, with a short array or
\* with a non-numeric element raises in main() outside any handler.
C12_ProcessNeverTerminates == pc # "crashed"

\* C13: when update_charger raises, control makes no verification re-read,
\* returns no ChargerAction and leaves the controller's local state as update
\* set it; no charger gets more than one command in a cycle.
C13_NoRetryOnSetError ==
    /\ (Called /\ last.submitted /\ last.outcome = "set_error") =>
           /\ ~last.reread
           /\ last.action = None
           /\ ctl[last.name] = last.entry
    /\ \A k \in Chargers : cyc.submissions[k] <= 1

\* C13 witness: the one command of this charger in this cycle raised
C13_Witness ==
    /\ Called
    /\ last.submitted
    /\ last.outcome = "set_error"
    /\ cyc.submissions[last.name] = 1

\* A step of a cycle that ends at the failed inverter read (the loop stays
\* at its top) or at the failed charger fetch
FailedCycleStep ==
    \/ pc = "sleep" /\ pc' = "sleep"
    \/ pc = "fetch" /\ pc' = "sleep"

\* C14: a cycle whose inverter read or charger fetch fails submits no
\* command, changes no controller's local state and not the time policy's
\* latch, and the next cycle starts after the sleep.
C14_FailedCycleFrame ==
    [][FailedCycleStep =>
          /\ ctl' = ctl
          /\ daily_disabled' = daily_disabled
          /\ \A k \in Chargers : cyc'.submissions[k] = 0
          /\ pc' = "sleep"
          /\ inverter_data' = None
          /\ now' \in LaterReads(now)]_vars

\* C14 witness: the clock is past the first instant of a new day and no
\* control call has seen that day, so the cycles of this day failed; the latch
\* of yesterday and the controllers' state are still in place.
C14_Witness ==
    /\ pc = "sleep"
    /\ now.day > last_reset_date
    /\ now.tod > 0
    /\ daily_disabled
    /\ \E k \in Chargers : ctl[k].charger_connected

\* The power-based branch with should_disable false and should_enable true
PriorityCase ==
    Called /\ last.branch = "energy" /\ ~last.should_disable /\ last.should_enable

PrimaryConnected ==
    \E k \in Chargers : k = cfg.primary_charger /\ ctl[k].charger_connected

\* C15: in the power-based branch with should_disable false and should_enable
\* true a primary is active, a secondary is active iff no primary controller
\* is connected, and a charger that is not active is proposed
\* (min_current, false).
C15_PriorityRule ==
    PriorityCase =>
        /\ last.name = cfg.primary_charger => last.active
        /\ last.name # cfg.primary_charger => (last.active <=> ~PrimaryConnected)
        /\ ~last.active => (last.current = cfg.min_current /\ ~last.state)

\* C15 witness: a secondary held back by a primary that is connected but
\* draws no power
C15_Witness ==
    /\ PriorityCase
    /\ last.name # cfg.primary_charger
    /\ PrimaryConnected
    /\ ~ctl[cfg.primary_charger].charging
    /\ ~last.active

\* round(a / Voltage) as Python defines it: the integer nearest to the
\* quotient, the even one of the two when the quotient lies halfway
Nearest(a) ==
    CHOOSE r \in -100..100 :
        \/ 2 * Abs(a - r * Voltage) < Voltage
        \/ 2 * Abs(a - r * Voltage) = Voltage /\ r % 2 = 0

Returned(fn) == pc = "returned" /\ arg.fn = fn

OtherSecondaries(name) == {k \in Chargers : k # cfg.primary_charger /\ k # name}

Clamp(x, lo, hi) == IF x < lo THEN lo ELSE IF x > hi THEN hi ELSE x

SunnyMidday ==
    /\ Called
    /\ cfg = CfgDefault
    /\ last.n1.tod = 720
    /\ now.tod = 720
    /\ inverter_data = [solar |-> 8000, home |-> 1200, soc |-> 90, from_battery |-> 0]
    /\ \A k \in Chargers : ctl[k].charger_connected
    /\ last.entry.charger_connected

\* C18: in the sunny-midday scenario control commands the primary
\* (24 A, enabled) and, with the primary charging, the secondary
\* (6 A, enabled).  The code takes the time policy's daytime rule for both
\* chargers and commands each of them (27 A, enabled).
C18_SunnyMiddayScenario ==
    SunnyMidday =>
        /\ last.name = cfg.primary_charger => (last.current = 24 /\ last.state)
        /\ (last.name # cfg.primary_charger /\ ctl[cfg.primary_charger].charging)
               => (last.current = 6 /\ last.state)

\* The call falls in the daytime window, outside the unrestricted window,
\* with the latch clear
DaytimeCall ==
    /\ Returned("time_policy")
    /\ cfg.switch_on_time <= now.tod
    /\ now.tod < cfg.switch_off_time
    /\ ~InFixedWindow(now.tod)
    /\ ~res.latched_before

DaytimeEnabled ==
    arg.excess_power > cfg.min_excess_threshold
    /\ arg.battery_soc > cfg.battery_soc_threshold

\* int(a / Voltage): the whole part of the quotient, toward zero
Truncated(a) ==
    CHOOSE q \in -100..100 :
        IF a >= 0 THEN q * Voltage <= a /\ a < (q + 1) * Voltage
        ELSE (q - 1) * Voltage < a /\ a <= q * Voltage

\* C19 as stated: in the daytime window, outside the unrestricted window and
\* with the latch clear, the policy is enabled iff excess > excess_threshold
\* and SOC > soc_threshold; enabled, its current is excess / voltage held
\* within min_current..max_current; not enabled, it returns
\* (min_current, false).
C19_DaytimeExactQuotient ==
    DaytimeCall =>
        /\ res.enabled <=> DaytimeEnabled
        /\ res.enabled =>
               IF arg.excess_power <= cfg.min_current * Voltage
               THEN res.current = cfg.min_current
               ELSE IF arg.excess_power >= cfg.max_current * Voltage
               THEN res.current = cfg.max_current
               ELSE res.current * Voltage = arg.excess_power
        /\ ~res.enabled => res.current = cfg.min_current

\* C19 amended: enabled, the current is the whole part of excess / voltage
\* (truncated toward zero) held within min_current..max_current.
C19_DaytimeTruncatedQuotient ==
    DaytimeCall =>
        /\ res.enabled <=> DaytimeEnabled
        /\ res.enabled =>
               res.current = Clamp(Truncated(arg.excess_power),
                                   cfg.min_current, cfg.max_current)
        /\ ~res.enabled => res.current = cfg.min_current

\* C19 witness: enabled with a quotient that is not whole and lies within
\* the limits
C19_Witness ==
    /\ DaytimeCall
    /\ res.enabled
    /\ arg.excess_power % Voltage > Voltage \div 2
    /\ cfg.min_current < res.current
    /\ res.current < cfg.max_current

\* The power-family keys among ReadingKeys
PowerFamily == {Key_Power_FromSolar, Key_String1_Power, Key_AC_Power}

\* The dict holds the same entry, or none, for key k before and after
SameEntry(k) ==
    /\ k \in DOMAIN last_valid_readings <=> k \in DOMAIN arg.before
    /\ k \in DOMAIN arg.before => last_valid_readings[k] = arg.before[k]

\* C20: for a power-family key, a value with |value| <= threshold is
\* returned and becomes the key's last-good value; any other value is
\* replaced by the key's last-good value (0 if there is none) and no entry
\* changes; no call changes the last-good value of another key; other keys
\* are returned unchanged and never stored.
C20_ValidateReading ==
    Returned("validate_reading") =>
        /\ (arg.key \in PowerFamily /\ Abs(arg.value) <= max_power_threshold) =>
               /\ res = arg.value
               /\ arg.key \in DOMAIN last_valid_readings
               /\ last_valid_readings[arg.key] = arg.value
        /\ (arg.key \in PowerFamily /\ Abs(arg.value) > max_power_threshold) =>
               /\ res = IF arg.key \in DOMAIN arg.before THEN arg.before[arg.key] ELSE 0
               /\ SameEntry(arg.key)
        /\ \A k \in ReadingKeys \ {arg.key} : SameEntry(k)
        /\ arg.key \notin PowerFamily =>
               /\ res = arg.value
               /\ SameEntry(arg.key)
               /\ arg.key \notin DOMAIN last_valid_readings

\* C20 witness: last-good Power/FromSolar is 6000 and the reading 123456 is
\* replaced by it
C20_Witness ==
    /\ Returned("validate_reading")
    /\ arg.key = Key_Power_FromSolar
    /\ arg.value = 123456
    /\ Key_Power_FromSolar \in DOMAIN arg.before
    /\ arg.before[Key_Power_FromSolar] = 6000
    /\ res = 6000

\* The most recent min(n, max_samples) arrivals, in arrival order
RecentArrivals ==
    LET n == Len(arg.arrivals)
        k == Min2(n, main_attrs.max_power_samples)
    IN  SubSeq(arg.arrivals, n - k + 1, n)

\* C21: after any number of cycles the history holds at most max_samples
\* entries, namely the most recent min(n, max_samples) samples in arrival
\* order; the value returned is their mean, and 0 when the buffer is empty.
C21_RollingBuffer ==
    Returned("update_power_average") =>
        /\ Len(main_attrs.battery_power_history) <= main_attrs.max_power_samples
        /\ main_attrs.battery_power_history = RecentArrivals
        /\ RecentArrivals # <<>> =>
               res.sum * Len(RecentArrivals) = SumSeq(RecentArrivals) * res.n
        /\ RecentArrivals = <<>> => res.sum = 0

\* C21 witness: more samples have arrived than the buffer holds, and the
\* oldest kept one differs from the first that arrived
C21_Witness ==
    /\ Returned("update_power_average")
    /\ main_attrs.max_power_samples >= 2
    /\ Len(arg.arrivals) > main_attrs.max_power_samples
    /\ Head(main_attrs.battery_power_history) # Head(arg.arrivals)

\* C22: the buffer's capacity is ceil(window_minutes * 60 / cycle_seconds),
\* the least c with c * cycle_seconds >= window_minutes * 60.  The code
\* computes int(window * 60 / cycle): one less when the cycle does not
\* divide the window.
C22_CapacityIsCeiling ==
    Returned("update_power_average") =>
        /\ main_attrs.max_power_samples * arg.sleep_interval >= arg.power_avg_window * 60
        /\ (main_attrs.max_power_samples - 1) * arg.sleep_interval
               < arg.power_avg_window * 60

\* C23: calculate_battery_reserve is non-increasing in SOC over 0..100,
\* 1700 below 75, 1200 for 75..84, 700 for 85..94, 500 for 95..98 and 0 from
\* 99 on.
C23_ReserveSchedule ==
    Returned("battery_reserve") =>
        /\ arg.soc_battery < 75 => res = 1700
        /\ (75 <= arg.soc_battery /\ arg.soc_battery <= 84) => res = 1200
        /\ (85 <= arg.soc_battery /\ arg.soc_battery <= 94) => res = 700
        /\ (95 <= arg.soc_battery /\ arg.soc_battery <= 98) => res = 500
        /\ arg.soc_battery >= 99 => res = 0
        /\ \A lower \in 0 .. arg.soc_battery : calculate_battery_reserve(lower) >= res

\* C23 witness: 99 % needs no reserve
C23_Witness ==
    /\ Returned("battery_reserve")
    /\ arg.soc_battery = 99
    /\ res = 0

\* C24: decoding the registers of a value gives the value back: signed 16
\* bit for -32768..32767, signed and unsigned 32 bit composed of a low and a
\* high word.
C24_DecodeRoundTrip ==
    (pc = "returned" /\ arg.fn \in {"signed_16_bit", "signed_32_bit", "unsigned_32_bit"})
        => res = arg.v

\* C24 witness: a negative 32-bit value whose low word has its top bit set
C24_Witness ==
    /\ Returned("signed_32_bit")
    /\ arg.v.hi < 0
    /\ arg.v.lo > MaxInt16
    /\ res = arg.v


\* C25: every ChargerAction records the pair held before the command and the
\* pair commanded: old_current is the current the controller held before the
\* command was submitted, new_current the commanded current, old_state and
\* new_state the previous and the new on flags.
C25_ActionRecordsBothPairs ==
    (Called /\ last.submitted /\ last.reread) =>
        /\ last.action.old_current = last.entry.charger_current
        /\ last.action.new_current = last.current
        /\ last.action.old_state = last.entry.charger_state
        /\ last.action.new_state = last.state

\* C27: when control takes the time-policy branch because
\* is_unrestricted_period() is true, the command it applies is
\* (fixed_current, enabled), also when the clock crosses fixed_start or
\* fixed_end between the read of get_time_based_current and that of control.
C27_UnrestrictedBranchAppliesFixed ==
    (Called /\ last.branch = "time" /\ last.unrestricted2) =>
        /\ last.current = cfg.fixed_charge_current
        /\ last.state = TRUE


\* C28: after a call of control the value last published on the charger's
\* Current sensor equals the controller's local charger_current, also after
\* an actuation whose verification re-read did not match the proposal.
C28_SensorShowsLocalCurrent ==
    Called => last.current_ha = ctl[last.name].charger_current


\* The pair get_time_based_current returns for the call observed in last
\* when daily_disabled is held false.
LatchFree ==
    get_time_based_current(cfg, [daily_disabled |-> FALSE, last_reset_date |-> last.n1.day],
                           last.n1, Excess, inverter_data.soc, Voltage)

MinutesSince(at) == (now.day - at.day) * 1440 + (now.tod - at.tod)

\* C26: consecutive on/off changes commanded to one charger respect the
\* lockouts: a charger switched off is not commanded on before
\* off_to_on_lockout seconds have passed, a charger switched on is not
\* commanded off before on_to_off_lockout seconds have passed.  Two clock
\* readings m minutes apart are less than 60 * (m + 1) seconds apart.
C26_LockoutsRespected ==
    Called =>
        LET before == cyc.previous[last.name]
            change == cyc.changes[last.name]
        IN  /\ (before.dir = "off" /\ change.dir = "on")
                   => 60 * (MinutesSince(before.at) + 1) > off_to_on_lockout
            /\ (before.dir = "on" /\ change.dir = "off")
                   => 60 * (MinutesSince(before.at) + 1) > on_to_off_lockout


\* C30: a message on a charger's Use Excess Solar switch, between or during
\* cycles, changes no state that update or control reads, so the commands
\* submitted do not depend on the messages: the step that handles a message
\* leaves the clock, the policy's latch, the controllers, the readings of the
\* cycle, the position of the loop and what the cycle has submitted as they
\* are.
C30_SwitchChangesNothingControlReads ==
    [][(excess_switch' # excess_switch) =>
          /\ cfg' = cfg
          /\ now' = now
          /\ daily_disabled' = daily_disabled
          /\ last_reset_date' = last_reset_date
          /\ ctl' = ctl
          /\ pc' = pc
          /\ idx' = idx
          /\ inverter_data' = inverter_data
          /\ charger_data' = charger_data
          /\ last' = last
          /\ cyc' = cyc]_vars

\* C30 witness: the switch of a charger has received OFF, and control has
\* commanded that charger on and seen the command verified
C30_Witness ==
    /\ Called
    /\ excess_switch[last.name].enabled = "False"
    /\ excess_switch[last.name].enabled_ha = "off"
    /\ last.submitted
    /\ last.state
    /\ last.outcome = "verified"
    /\ ctl[last.name].charger_state

====
